---- MODULE Spec2Model ----
(***************************************************************************)
(* CodebaseCity frontend: the per-building classifiers (tier, pattern,     *)
(* health score), the zustand store (useStore.js) and the values CityScene *)
(* derives from it (connected set, roads to render, rendered roads).       *)
(*                                                                         *)
(* Conventions.  Building ids are the integers 1..NumIds; Null (0) stands  *)
(* for JavaScript null/undefined where an id or a building is expected.    *)
(* A metrics object is a function from the field names it carries to       *)
(* integers: a field outside its DOMAIN is undefined.  decay_level is kept *)
(* in hundredths (0.8 is 80).                                              *)
(***************************************************************************)
EXTENDS Integers, Sequences, FiniteSets, TLC

VARIABLES
    bld,               \* the building handed to Building/BuildingLabel/BuildingPanel
    tier,              \* result of getBuildingTier(bld), Unset before the render
    pattern,           \* result of detectPattern(bld), "unset" before the render
    healthScore,       \* result of the BuildingPanel render for bld
    cityData,          \* store: the current snapshot
    loading,           \* store
    error,             \* store
    analysisProgress,  \* store
    selectedBuilding,  \* store: id of the selected building object, or Null
    hoveredBuilding,   \* store: id of the hovered building object, or Null
    showRoads,         \* store
    over,              \* ids of the building meshes the pointer is inside
    clicked,           \* id of the building of the latest click or choice since
                       \* the selection was last cleared, or Null
    sceneData,         \* the snapshot handed to CityScene, with positions
    scene,             \* what CityScene renders for sceneData
    entityCount,       \* number of buildings of the snapshot being drawn
    cameraDistance,    \* distance of the orbiting camera from the origin
    frame,             \* what the latest frame drew, by kind
    meshData,          \* the buildings handed to both building renderers
    discrete,          \* what the SingleBuilding components draw
    instanced,         \* the instance buffers of InstancedBuildings
    meshRef,           \* whether the instanced mesh is mounted (ref set)
    mapBuildings,      \* the buildings prop of MiniMapOverlay
    miniMap,           \* mapConfig and the building dots of the minimap
    mapClick,          \* the latest click on the minimap
    connMemo,          \* CityScene: useMemo cell of connectedIds
    roadsMemo,         \* CityScene: useMemo cell of roadsToRender
    requests,          \* the fetchDemo and analyzeRepo calls awaiting their fetch
    issued,            \* number of fetchDemo and analyzeRepo calls made so far
    responses,         \* what each settled snapshot request was answered with
    messages,          \* store: the chat transcript
    chatLoading,       \* store
    chats,             \* the sendMessage calls awaiting their fetch
    sent               \* number of sendMessage calls made so far

vars == <<bld, tier, pattern, healthScore, cityData, loading, error,
          analysisProgress, selectedBuilding, hoveredBuilding, showRoads,
          over, clicked, sceneData, scene, entityCount, cameraDistance, frame,
          meshData, discrete, instanced, meshRef, mapBuildings, miniMap,
          mapClick, connMemo, roadsMemo, requests, issued, responses,
          messages, chatLoading, chats, sent>>

viewVars == <<sceneData, scene>>
frameVars == <<entityCount, cameraDistance, frame>>
meshVars == <<meshData, discrete, instanced, meshRef>>
mapVars == <<mapBuildings, miniMap, mapClick>>
requestVars == <<requests, issued, responses>>
chatVars == <<messages, chatLoading, chats, sent>>
asyncVars == <<requestVars, chatVars>>
fnVars == <<bld, tier, pattern, healthScore>>
storeVars == <<cityData, loading, error, analysisProgress, selectedBuilding,
               hoveredBuilding, showRoads, over, clicked, connMemo, roadsMemo>>

(***************************************************************************)
(* Bounds                                                                  *)
(***************************************************************************)
Margin == 1     \* metric values are drawn within Margin of every threshold
NumIds == 2     \* building ids 1..NumIds
MaxRoads == 2   \* longest road list of a snapshot

Null == 0
Unset == 0

Near(T) == {t + d : t \in T, d \in (0 - Margin)..Margin}

Max(a, b) == IF a > b THEN a ELSE b

(***************************************************************************)
(* JavaScript field access on a metrics object                             *)
(***************************************************************************)
EmptyMetrics == [f \in {} |-> 0]

\* building.metrics || {}
MetricsOf(b) == IF b.hasMetrics THEN b.metrics ELSE EmptyMetrics

\* m.f || dflt : undefined and 0 are falsy
OrElse(m, f, dflt) == IF f \in DOMAIN m /\ m[f] # 0 THEN m[f] ELSE dflt

\* m.f > k : a comparison with undefined is false
Gt(m, f, k) == f \in DOMAIN m /\ m[f] > k

(***************************************************************************)
(* Building.jsx: getBuildingTier                                           *)
(***************************************************************************)
\* the hotspot test left out of the tier-4 condition
getBuildingTierNoHotspot(building) ==
    LET loc == OrElse(MetricsOf(building), "loc", 0)
        complexity == OrElse(MetricsOf(building), "complexity", 0)
    IN  IF loc > 500 \/ complexity > 20 THEN 4
        ELSE IF loc > 200 \/ complexity > 12 THEN 3
        ELSE IF loc > 80 \/ complexity > 6 THEN 2
        ELSE 1

\* the thresholds compared with >= instead of >
getBuildingTierInclusive(building) ==
    LET loc == OrElse(MetricsOf(building), "loc", 0)
        complexity == OrElse(MetricsOf(building), "complexity", 0)
    IN  IF loc >= 500 \/ complexity >= 20 \/ building.is_hotspot THEN 4
        ELSE IF loc >= 200 \/ complexity >= 12 THEN 3
        ELSE IF loc >= 80 \/ complexity >= 6 THEN 2
        ELSE 1

getBuildingTier(building) ==
    LET loc == OrElse(MetricsOf(building), "loc", 0)
        complexity == OrElse(MetricsOf(building), "complexity", 0)
    IN  IF loc > 500 \/ complexity > 20 \/ building.is_hotspot THEN 4
        ELSE IF loc > 200 \/ complexity > 12 THEN 3
        ELSE IF loc > 80 \/ complexity > 6 THEN 2
        ELSE 1

(***************************************************************************)
(* BuildingLabel.jsx: detectPattern (the type of the returned pattern,     *)
(* "null" when it returns null)                                            *)
(***************************************************************************)
\* the brain_class and blob rules tested before the god_class rule
detectPatternReordered(building) ==
    LET metrics == MetricsOf(building)
        loc == OrElse(metrics, "loc", 0)
        complexity == OrElse(metrics, "complexity", 0)
        methods == OrElse(metrics, "methods", OrElse(metrics, "complexity", 0))
        attributes == OrElse(metrics, "dependencies_in", 0)
    IN  IF complexity > 25 THEN "brain_class"
        ELSE IF loc > 800 THEN "blob"
        ELSE IF (loc > 400 /\ complexity > 20) \/ building.is_hotspot THEN "god_class"
        ELSE IF attributes > 10 /\ methods < 3 THEN "data_class"
        ELSE IF loc < 50 /\ methods < 3 /\ ~building.is_hotspot THEN "lazy_class"
        ELSE "null"

\* the god_class rule looks at size and complexity only
detectPatternSizeOnly(building) ==
    LET metrics == MetricsOf(building)
        loc == OrElse(metrics, "loc", 0)
        complexity == OrElse(metrics, "complexity", 0)
        methods == OrElse(metrics, "methods", OrElse(metrics, "complexity", 0))
        attributes == OrElse(metrics, "dependencies_in", 0)
    IN  IF loc > 400 /\ complexity > 20 THEN "god_class"
        ELSE IF attributes > 10 /\ methods < 3 THEN "data_class"
        ELSE IF loc < 50 /\ methods < 3 /\ ~building.is_hotspot THEN "lazy_class"
        ELSE IF complexity > 25 THEN "brain_class"
        ELSE IF loc > 800 THEN "blob"
        ELSE "null"

\* complexity alone stands for the method count
detectPatternComplexityProxy(building) ==
    LET metrics == MetricsOf(building)
        loc == OrElse(metrics, "loc", 0)
        complexity == OrElse(metrics, "complexity", 0)
        methods == OrElse(metrics, "complexity", 0)
        attributes == OrElse(metrics, "dependencies_in", 0)
    IN  IF (loc > 400 /\ complexity > 20) \/ building.is_hotspot THEN "god_class"
        ELSE IF attributes > 10 /\ methods < 3 THEN "data_class"
        ELSE IF loc < 50 /\ methods < 3 /\ ~building.is_hotspot THEN "lazy_class"
        ELSE IF complexity > 25 THEN "brain_class"
        ELSE IF loc > 800 THEN "blob"
        ELSE "null"

detectPattern(building) ==
    LET metrics == MetricsOf(building)
        loc == OrElse(metrics, "loc", 0)
        complexity == OrElse(metrics, "complexity", 0)
        methods == OrElse(metrics, "methods", OrElse(metrics, "complexity", 0))
        attributes == OrElse(metrics, "dependencies_in", 0)
    IN  IF (loc > 400 /\ complexity > 20) \/ building.is_hotspot THEN "god_class"
        ELSE IF attributes > 10 /\ methods < 3 THEN "data_class"
        ELSE IF loc < 50 /\ methods < 3 /\ ~building.is_hotspot THEN "lazy_class"
        ELSE IF complexity > 25 THEN "brain_class"
        ELSE IF loc > 800 THEN "blob"
        ELSE "null"

(***************************************************************************)
(* BuildingPanel.jsx: calculateHealthScore and the render that calls it    *)
(***************************************************************************)
\* the hotspot deduction added instead of subtracted
calculateHealthScoreHotspotSign(metrics, decay, isHotspot) ==
    LET s1 == 100 - (IF Gt(metrics, "complexity", 25) THEN 30
                     ELSE IF Gt(metrics, "complexity", 15) THEN 20
                     ELSE IF Gt(metrics, "complexity", 10) THEN 10 ELSE 0)
        s2 == s1 - (IF Gt(metrics, "churn", 15) THEN 20
                    ELSE IF Gt(metrics, "churn", 8) THEN 10 ELSE 0)
        s3 == s2 - (IF decay > 80 THEN 15 ELSE IF decay > 50 THEN 8 ELSE 0)
        s4 == s3 - (IF Gt(metrics, "dependencies_in", 20) THEN 15
                    ELSE IF Gt(metrics, "dependencies_in", 10) THEN 8 ELSE 0)
        s5 == s4 + (IF isHotspot THEN 20 ELSE 0)
    IN  Max(0, s5)

\* the else-if chains written as plain ifs: the tiers of one rule add up
calculateHealthScoreCumulative(metrics, decay, isHotspot) ==
    LET s1 == 100 - (IF Gt(metrics, "complexity", 25) THEN 30 ELSE 0)
                  - (IF Gt(metrics, "complexity", 15) THEN 20 ELSE 0)
                  - (IF Gt(metrics, "complexity", 10) THEN 10 ELSE 0)
        s2 == s1 - (IF Gt(metrics, "churn", 15) THEN 20 ELSE 0)
                 - (IF Gt(metrics, "churn", 8) THEN 10 ELSE 0)
        s3 == s2 - (IF decay > 80 THEN 15 ELSE 0) - (IF decay > 50 THEN 8 ELSE 0)
        s4 == s3 - (IF Gt(metrics, "dependencies_in", 20) THEN 15 ELSE 0)
                 - (IF Gt(metrics, "dependencies_in", 10) THEN 8 ELSE 0)
        s5 == s4 - (IF isHotspot THEN 20 ELSE 0)
    IN  Max(0, s5)

calculateHealthScore(metrics, decay, isHotspot) ==
    LET s1 == 100 - (IF Gt(metrics, "complexity", 25) THEN 30
                     ELSE IF Gt(metrics, "complexity", 15) THEN 20
                     ELSE IF Gt(metrics, "complexity", 10) THEN 10 ELSE 0)
        s2 == s1 - (IF Gt(metrics, "churn", 15) THEN 20
                    ELSE IF Gt(metrics, "churn", 8) THEN 10 ELSE 0)
        s3 == s2 - (IF decay > 80 THEN 15 ELSE IF decay > 50 THEN 8 ELSE 0)
        s4 == s3 - (IF Gt(metrics, "dependencies_in", 20) THEN 15
                    ELSE IF Gt(metrics, "dependencies_in", 10) THEN 8 ELSE 0)
        s5 == s4 - (IF isHotspot THEN 20 ELSE 0)
    IN  Max(0, s5)

\* BuildingPanel destructures building.metrics and passes it on unguarded:
\* reading metrics.complexity of an undefined metrics throws a TypeError.
BuildingPanelHealth(building) ==
    IF building.hasMetrics
    THEN [status |-> "ok",
          value |-> calculateHealthScore(building.metrics, building.decay_level,
                                         building.is_hotspot)]
    ELSE [status |-> "TypeError", value |-> 0]

UnsetHealth == [status |-> "unset", value |-> 0]

(***************************************************************************)
(* Snapshots (the response of /api/demo or /api/analyze, or the built-in   *)
(* demo city).  A building is reduced to its id; the buildings of a        *)
(* snapshot are 1..n, and a road may name an id the snapshot has pruned.   *)
(* A road carries its endpoints either as source/target or as from/to.     *)
(***************************************************************************)
Ids == 1..NumIds

SourceTargetRoads ==
    {[source |-> s, target |-> t, from |-> Null, to |-> Null] : s \in Ids, t \in Ids}

FromToRoads ==
    {[source |-> Null, target |-> Null, from |-> s, to |-> t] : s \in Ids, t \in Ids}

\* one payload uses one of the two spellings for all of its roads
RoadLists ==
    UNION {[1..k -> SourceTargetRoads] \cup [1..k -> FromToRoads] : k \in 0..MaxRoads}

BuildingLists == {[i \in 1..n |-> i] : n \in 0..NumIds}

NullData == [present |-> FALSE, buildings |-> <<>>, hasRoads |-> FALSE, roads |-> <<>>]

Snapshots ==
    {[present |-> TRUE, buildings |-> bs, hasRoads |-> TRUE, roads |-> rs] :
        bs \in BuildingLists, rs \in RoadLists}
    \cup {[present |-> TRUE, buildings |-> bs, hasRoads |-> FALSE, roads |-> <<>>] :
        bs \in BuildingLists}

\* data?.roads
RoadsOf(data) ==
    [defined |-> data.present /\ data.hasRoads,
     list |-> IF data.present /\ data.hasRoads THEN data.roads ELSE <<>>]

\* road.source || road.from ,  road.target || road.to
RoadSource(road) == IF road.source # Null THEN road.source ELSE road.from
RoadTarget(road) == IF road.target # Null THEN road.target ELSE road.to

(***************************************************************************)
(* CityScene.jsx: derived values                                           *)
(***************************************************************************)
\* centeredBuildings: the ids of the buildings handed to <Building>
centeredBuildings(data) == IF data.present THEN data.buildings ELSE <<>>

\* buildingMap[id] is defined exactly for the ids of centeredBuildings
buildingMap(data) == {centeredBuildings(data)[i] : i \in DOMAIN centeredBuildings(data)}

\* the callback of data.roads.forEach
addRoad(road, selId, ids) ==
    LET source == RoadSource(road)
        target == RoadTarget(road)
        ids1 == IF source = selId THEN ids \cup {target} ELSE ids
    IN  IF target = selId THEN ids1 \cup {source} ELSE ids1

\* forEach in list order.  The callback only ever adds to ids, so a list of
\* several roads is walked as its two halves, the second from the empty set:
\* this keeps the evaluation shallow for lists as long as RoadLimit
RECURSIVE addConnected(_, _, _)
addConnected(roads, selId, ids) ==
    IF roads = <<>> THEN ids
    ELSE IF Len(roads) = 1 THEN addRoad(roads[1], selId, ids)
    ELSE addConnected(SubSeq(roads, 1, Len(roads) \div 2), selId, ids)
           \cup addConnected(SubSeq(roads, Len(roads) \div 2 + 1, Len(roads)), selId, {})

connectedIds(selected, dataRoads) ==
    IF selected = Null \/ ~dataRoads.defined THEN {}
    ELSE addConnected(dataRoads.list, selected, {})

RoadLimit == 40

Min(a, b) == IF a < b THEN a ELSE b

IsIncident(road, selId) == RoadSource(road) = selId \/ RoadTarget(road) = selId

\* the whole list is drawn when nothing is selected
roadsToRenderUnlimited(dataRoads, selected, show) ==
    IF ~dataRoads.defined THEN <<>>
    ELSE IF selected # Null
         THEN SelectSeq(dataRoads.list, LAMBDA road : IsIncident(road, selected))
         ELSE IF show THEN dataRoads.list ELSE <<>>

roadsToRender(dataRoads, selected, show) ==
    IF ~dataRoads.defined THEN <<>>
    ELSE IF selected # Null
         THEN SelectSeq(dataRoads.list, LAMBDA road : IsIncident(road, selected))
         ELSE IF show THEN SubSeq(dataRoads.list, 1, Min(RoadLimit, Len(dataRoads.list)))
              ELSE <<>>

\* useMemo: the cell keeps its value while the dependency list is unchanged
UseMemo(cell, deps, value) ==
    IF cell.deps = deps THEN cell ELSE [deps |-> deps, val |-> value]

\* the dependency list of connectedIds without selectedBuilding
ConnDepsNoSelection(selected, data) == <<Null, RoadsOf(data)>>

ConnDeps(selected, data) == <<selected, RoadsOf(data)>>

RoadsDeps(data, selected, show) == <<RoadsOf(data), selected, show>>

\* the render that follows every store update
Render(data, selected, show) ==
    /\ connMemo' = UseMemo(connMemo, ConnDeps(selected, data),
                           connectedIds(selected, RoadsOf(data)))
    /\ roadsMemo' = UseMemo(roadsMemo, RoadsDeps(data, selected, show),
                            roadsToRender(RoadsOf(data), selected, show))

\* every road of roadsToRender is drawn, resolved or not
RoadGeometryUnchecked(road, data) == TRUE

\* a road is drawn when both of its endpoints resolve in buildingMap
RoadGeometry(road, data) ==
    RoadSource(road) \in buildingMap(data) /\ RoadTarget(road) \in buildingMap(data)

\* the road meshes of the scene; the empty scene returns before the roads
renderedRoads ==
    IF Len(centeredBuildings(cityData)) = 0 THEN <<>>
    ELSE SelectSeq(roadsMemo.val, LAMBDA road : RoadGeometry(road, cityData))

\* <Building isConnected={connectedIds.has(building.id)}>
isConnected(id) == id \in connMemo.val

\* Building.jsx: isSelected = selectedBuilding?.id === data.id
isSelected(id) == selectedBuilding # Null /\ selectedBuilding = id

\* {isSelected && <green ring>}
selectedRing(id) == isSelected(id)

\* the blue ring is shown for every connected building
connectedRingUnguarded(id) == isConnected(id)

\* {isConnected && !isSelected && <blue ring>}
connectedRing(id) == isConnected(id) /\ ~isSelected(id)

\* App.jsx: {selectedBuilding && <BuildingPanel building={selectedBuilding} />}
panelShown == selectedBuilding # Null

(***************************************************************************)
(* CityScene.jsx: the normalizer and the scene, on snapshots that carry    *)
(* positions.  A snapshot is a record as above with, in addition, the      *)
(* position of each building and the districts.  centerX and centerZ are   *)
(* halves, (minX + maxX) / 2: every centered coordinate of the model is    *)
(* the double of the code's value, so that it stays an integer.            *)
(***************************************************************************)
MaxBuildings == 3   \* a positioned snapshot has at most MaxBuildings buildings

\* input coordinates: equal or distinct along each axis
Coords == {0, 1}
Positions == [x : Coords, z : Coords]

NoCenter == [x |-> 0, y |-> 0]

\* a district with or without a center
Districts ==
    {[id |-> 1, hasCenter |-> FALSE, center |-> NoCenter]}
    \cup {[id |-> 1, hasCenter |-> TRUE, center |-> [x |-> p.x, y |-> p.z]] :
             p \in {q \in Positions : q.x # q.z}}

DistrictLists == {<<>>} \cup {<<d>> : d \in Districts}

\* the roads of a positioned snapshot: none, or one road between buildings 1 and 2
SceneRoadLists ==
    {<<>>} \cup {<<r>> : r \in {q \in SourceTargetRoads : q.source = 1 /\ q.target <= 2}}

NullSceneData ==
    [present |-> FALSE, hasBuildings |-> FALSE, buildings |-> <<>>,
     position |-> <<>>, hasDistricts |-> FALSE, districts |-> <<>>,
     hasRoads |-> FALSE, roads |-> <<>>]

\* the payloads with a buildings list (possibly empty)
SceneWithBuildings ==
    {[present |-> TRUE, hasBuildings |-> TRUE,
      buildings |-> [i \in 1..Len(ps) |-> i],
      position |-> ps, hasDistricts |-> TRUE, districts |-> ds,
      hasRoads |-> TRUE, roads |-> rs] :
        ps \in UNION {[1..k -> Positions] : k \in 0..MaxBuildings},
        ds \in DistrictLists, rs \in SceneRoadLists}

SceneSnapshots ==
    {NullSceneData}
    \cup SceneWithBuildings
    \* no buildings field, districts and roads still carried
    \cup {[NullSceneData EXCEPT !.present = TRUE, !.hasDistricts = TRUE,
             !.districts = ds, !.hasRoads = TRUE, !.roads = rs] :
             ds \in DistrictLists, rs \in SceneRoadLists}
    \* no districts field
    \cup {[d EXCEPT !.hasDistricts = FALSE, !.districts = <<>>] :
             d \in {e \in SceneWithBuildings : e.districts = <<>> /\ e.roads = <<>>}}

\* !data?.buildings?.length
NoBuildings(data) == ~data.present \/ ~data.hasBuildings \/ Len(data.buildings) = 0

SetMin(S) == CHOOSE m \in S : \A e \in S : m <= e
SetMax(S) == CHOOSE m \in S : \A e \in S : m >= e

XsOf(data) == {data.position[i].x : i \in DOMAIN data.position}
ZsOf(data) == {data.position[i].z : i \in DOMAIN data.position}

\* twice centerX and twice centerZ of a snapshot with buildings
centerX2LowerBound(data) == 2 * SetMin(XsOf(data))

centerX2(data) == SetMin(XsOf(data)) + SetMax(XsOf(data))

\* centerZ taken one unit off the midpoint
centerZ2OffMidpoint(data) == SetMin(ZsOf(data)) + SetMax(ZsOf(data)) + 2

centerZ2(data) == SetMin(ZsOf(data)) + SetMax(ZsOf(data))

\* position: { x: b.position.x - centerX, z: b.position.z - centerZ }, doubled
centeredPosition(data) ==
    IF NoBuildings(data) THEN <<>>
    ELSE [i \in DOMAIN data.position |->
             [x |-> 2 * data.position[i].x - centerX2(data),
              z |-> 2 * data.position[i].z - centerZ2(data)]]

\* the y of a district center is shifted by centerX
centeredDistrictsSameAxis(data) ==
    IF NoBuildings(data) \/ ~data.hasDistricts THEN <<>>
    ELSE [i \in DOMAIN data.districts |->
             LET d == data.districts[i]
             IN  [id |-> d.id,
                  center |-> IF d.hasCenter
                             THEN [x |-> 2 * d.center.x - centerX2(data),
                                   y |-> 2 * d.center.y - centerX2(data)]
                             ELSE NoCenter]]

\* the districts are mapped although the snapshot has no buildings
centeredDistrictsUnguarded(data) ==
    IF ~data.present \/ ~data.hasDistricts THEN <<>>
    ELSE [i \in DOMAIN data.districts |->
             [id |-> data.districts[i].id, center |-> NoCenter]]

\* data.districts?.map(d => ({...d, center: d.center ? shifted : {x: 0, y: 0}})) || []
centeredDistricts(data) ==
    IF NoBuildings(data) \/ ~data.hasDistricts THEN <<>>
    ELSE [i \in DOMAIN data.districts |->
             LET d == data.districts[i]
             IN  [id |-> d.id,
                  center |-> IF d.hasCenter
                             THEN [x |-> 2 * d.center.x - centerX2(data),
                                   y |-> 2 * d.center.y - centerZ2(data)]
                             ELSE NoCenter]]

\* the scene CityScene returns: the empty scene is lights and the ground
\* plane; the full scene adds one zone per district, one <Building> per
\* building and one ribbon per resolved road
CityScene(data, selected, show) ==
    [status |-> "ok", lights |-> TRUE, ground |-> TRUE,
     empty |-> Len(centeredBuildings(data)) = 0,
     buildings |-> centeredBuildings(data),
     position |-> centeredPosition(data),
     districts |-> centeredDistricts(data),
     roads |-> IF Len(centeredBuildings(data)) = 0 THEN <<>>
               ELSE SelectSeq(roadsToRender(RoadsOf(data), selected, show),
                              LAMBDA road : RoadGeometry(road, data))]

UnsetScene == [status |-> "unset"]

(***************************************************************************)
(* App.jsx / CityScene.jsx: one frame, by what it draws.  The snapshot is  *)
(* reduced to its number of buildings.  CityScene has one way to draw a    *)
(* non-empty snapshot: a <Building> per building, the shadow-casting       *)
(* light, the district zones and the roads, whatever the camera distance.  *)
(***************************************************************************)
MinDistance == 30
MaxDistance == 400

\* the camera starts at (120, 100, 120): its distance from the origin, in
\* whole units
InitialDistance ==
    CHOOSE d \in MinDistance..MaxDistance :
        /\ d * d <= 120 * 120 + 100 * 100 + 120 * 120
        /\ (d + 1) * (d + 1) > 120 * 120 + 100 * 100 + 120 * 120
ShadowMapSize == 2048

EntityCounts == {0, 1, 50, 500, 1000} \cup Near({100, 200})

CameraDistances ==
    {MinDistance, MaxDistance, InitialDistance, 300} \cup Near({150, 250})

CitySceneFrame(n, d) ==
    [discrete |-> n, instanced |-> 0,
     castShadow |-> n > 0,
     shadowMapSize |-> IF n > 0 THEN ShadowMapSize ELSE 0,
     districts |-> n > 0, roads |-> n > 0]

InitFrame ==
    /\ entityCount = 0
    /\ cameraDistance = InitialDistance
    /\ frame = CitySceneFrame(0, InitialDistance)

\* setCityData with a snapshot of n buildings, and the frame that follows
LoadBuildings(n) ==
    /\ entityCount' = n
    /\ frame' = CitySceneFrame(n, cameraDistance)
    /\ UNCHANGED cameraDistance
    /\ UNCHANGED <<fnVars, storeVars, viewVars, meshVars, mapVars, asyncVars>>

\* OrbitControls moves the camera, within its distance limits
MoveCamera(d) ==
    /\ d >= MinDistance /\ d <= MaxDistance
    /\ cameraDistance' = d
    /\ frame' = CitySceneFrame(entityCount, d)
    /\ UNCHANGED entityCount
    /\ UNCHANGED <<fnVars, storeVars, viewVars, meshVars, mapVars, asyncVars>>

(***************************************************************************)
(* Building.jsx (box version): SingleBuilding and InstancedBuildings.      *)
(* decay_level is in hundredths; a color is an RGB triple of 0..255        *)
(* channels scaled by 1000, so that the blend by decay_level * 0.3 stays   *)
(* an integer.                                                             *)
(***************************************************************************)
MaxInstances == 2   \* the renderers get at most MaxInstances buildings

\* LANGUAGE_COLORS, in part
LANGUAGE_COLORS ==
    [python |-> [r |-> 53, g |-> 114, b |-> 165],
     typescript |-> [r |-> 49, g |-> 120, b |-> 198],
     default |-> [r |-> 107, g |-> 114, b |-> 128]]

\* '#5a6b5a'
MossColor == [r |-> 90, g |-> 107, b |-> 90]

\* language values: in the table but for the case, not in the table, empty
Languages == {"TypeScript", "cobol", ""}

toLowerCase(lang) == IF lang = "TypeScript" THEN "typescript" ELSE lang

\* data.language?.toLowerCase() || 'default', then LANGUAGE_COLORS[lang] || default
baseColor(building) ==
    LET lang == IF building.hasLanguage /\ building.language # ""
                THEN toLowerCase(building.language) ELSE "default"
    IN  IF lang \in DOMAIN LANGUAGE_COLORS THEN LANGUAGE_COLORS[lang]
        ELSE LANGUAGE_COLORS["default"]

Scaled(c) == [r |-> 1000 * c.r, g |-> 1000 * c.g, b |-> 1000 * c.b]

\* color.lerp(moss, decay_level * 0.3)
Lerp(c, m, decay) ==
    [r |-> 1000 * c.r + (m.r - c.r) * 3 * decay,
     g |-> 1000 * c.g + (m.g - c.g) * 3 * decay,
     b |-> 1000 * c.b + (m.b - c.b) * 3 * decay]

\* position and dimensions of the input buildings
Shapes ==
    {[x |-> 0, z |-> 0, width |-> 1, height |-> 1, depth |-> 1],
     [x |-> 3, z |-> 0 - 2, width |-> 2, height |-> 4, depth |-> 6]}

MeshBuildings ==
    {[hasLanguage |-> TRUE, language |-> l, decay_level |-> d, shape |-> sh] :
        l \in Languages, d \in {0, 50, 51, 100}, sh \in Shapes}
    \cup {[hasLanguage |-> FALSE, language |-> "", decay_level |-> d, shape |-> sh] :
        d \in {0, 50, 51, 100}, sh \in Shapes}

MeshLists == UNION {[1..k -> MeshBuildings] : k \in 0..MaxInstances}

\* <group position={[x, height / 2, z]}> with a box of the dimensions;
\* y is kept doubled
SingleBuilding(data) ==
    [position |-> [x |-> data.shape.x, y2 |-> data.shape.height, z |-> data.shape.z],
     box |-> [width |-> data.shape.width, height |-> data.shape.height,
              depth |-> data.shape.depth],
     color |-> IF data.decay_level > 50
               THEN Lerp(baseColor(data), MossColor, data.decay_level)
               ELSE Scaled(baseColor(data))]

\* an instance whose matrix was never set is the unit box at the origin,
\* and the mesh has no color attribute
NoColor == [r |-> 0 - 1, g |-> 0 - 1, b |-> 0 - 1]

IdentityInstance ==
    [position |-> [x |-> 0, y2 |-> 0, z |-> 0],
     box |-> [width |-> 1, height |-> 1, depth |-> 1],
     color |-> NoColor]

\* dummy.position.set(x, height / 2, z); dummy.scale.set(width, height, depth)
\* on the unit box; colorArray from colorToRGB(hex)
InstanceOf(building) ==
    [position |-> [x |-> building.shape.x, y2 |-> building.shape.height,
                   z |-> building.shape.z],
     box |-> [width |-> building.shape.width, height |-> building.shape.height,
              depth |-> building.shape.depth],
     color |-> Scaled(baseColor(building))]

\* the useMemo body: matrices and the color attribute reach the mesh only
\* if (meshRef.current)
InstancedBuildings(buildings, ref) ==
    [i \in DOMAIN buildings |->
        IF ref THEN InstanceOf(buildings[i]) ELSE IdentityInstance]

UnsetMeshes == <<[position |-> "unset"]>>

InitMesh ==
    /\ meshData = <<>>
    /\ discrete = <<>>
    /\ instanced = <<>>
    /\ meshRef = FALSE

InitMeshes ==
    /\ meshData \in MeshLists
    /\ discrete = UnsetMeshes
    /\ instanced = UnsetMeshes
    /\ meshRef = FALSE

\* one SingleBuilding per building
RenderSingleBuildings ==
    /\ discrete = UnsetMeshes
    /\ discrete' = [i \in DOMAIN meshData |-> SingleBuilding(meshData[i])]
    /\ UNCHANGED <<meshData, instanced, meshRef>>
    /\ UNCHANGED <<fnVars, storeVars, viewVars, frameVars, mapVars, asyncVars>>

\* first render of InstancedBuildings: the memo runs before the mesh exists
MountInstancedBuildings ==
    /\ ~meshRef
    /\ instanced' = InstancedBuildings(meshData, meshRef)
    /\ meshRef' = TRUE
    /\ UNCHANGED <<meshData, discrete>>
    /\ UNCHANGED <<fnVars, storeVars, viewVars, frameVars, mapVars, asyncVars>>

\* a later render with a new buildings array of the same content
UpdateInstancedBuildings ==
    /\ meshRef
    /\ instanced' = InstancedBuildings(meshData, meshRef)
    /\ UNCHANGED <<meshData, discrete, meshRef>>
    /\ UNCHANGED <<fnVars, storeVars, viewVars, frameVars, mapVars, asyncVars>>

(***************************************************************************)
(* ControlsPanel.jsx: MiniMapOverlay.  scale is 150 / max(width, height):  *)
(* the model keeps the denominator, scaleDen, and every pixel coordinate   *)
(* multiplied by it, so that projection and distances are exact.           *)
(***************************************************************************)
MaxDots == 2      \* the minimap gets at most MaxDots buildings
CoordStep == 6    \* spacing of the building positions given to the minimap

Padding == 30
MapSize == 150
HitRadius == 10

MapCoords == {0, CoordStep}

\* dimensions.height: below, inside and above the clamp of the dot size
Heights == {5, 20, 40}

MapBuildings == [x : MapCoords, z : MapCoords, height : Heights]

MapLists == UNION {[1..k -> MapBuildings] : k \in 0..MaxDots}

\* the lists whose buildings all have one height, for the hit test
LevelMapLists ==
    UNION {[1..k -> {b \in MapBuildings : b.height = 20}] : k \in 0..MaxDots}

NoMap == [defined |-> FALSE, minX |-> 0, minZ |-> 0, width |-> 0, height |-> 0,
          scaleDen |-> 0]

\* the bounding box is not padded
mapConfigNoPadding(buildings) ==
    IF Len(buildings) = 0 THEN NoMap
    ELSE LET xs == {buildings[i].x : i \in DOMAIN buildings}
             zs == {buildings[i].z : i \in DOMAIN buildings}
             width == SetMax(xs) - SetMin(xs)
             height == SetMax(zs) - SetMin(zs)
         IN  [defined |-> TRUE, minX |-> SetMin(xs), minZ |-> SetMin(zs),
              width |-> width, height |-> height, scaleDen |-> Max(width, height)]

mapConfig(buildings) ==
    IF Len(buildings) = 0 THEN NoMap
    ELSE LET xs == {buildings[i].x : i \in DOMAIN buildings}
             zs == {buildings[i].z : i \in DOMAIN buildings}
             width == (SetMax(xs) - SetMin(xs)) + Padding * 2
             height == (SetMax(zs) - SetMin(zs)) + Padding * 2
         IN  [defined |-> TRUE, minX |-> SetMin(xs) - Padding,
              minZ |-> SetMin(zs) - Padding,
              width |-> width, height |-> height, scaleDen |-> Max(width, height)]

\* buildingDots: x and y times scaleDen, size times 5
buildingDots(buildings, config) ==
    IF ~config.defined THEN <<>>
    ELSE [i \in DOMAIN buildings |->
             [x |-> (buildings[i].x - config.minX) * MapSize,
              y |-> (buildings[i].z - config.minZ) * MapSize,
              size5 |-> Max(10, Min(30, buildings[i].height)),
              building |-> i]]

MiniMapOverlay(buildings) ==
    [rendered |-> TRUE, mapConfig |-> mapConfig(buildings),
     buildingDots |-> buildingDots(buildings, mapConfig(buildings))]

UnsetMap == [rendered |-> FALSE, mapConfig |-> NoMap, buildingDots |-> <<>>]

NoClick == [tick |-> FALSE, x |-> 0, y |-> 0]

\* squared distance of a dot to a click, times scaleDen squared
Dist2(dot, click) ==
    (dot.x - click.x) * (dot.x - click.x) + (dot.y - click.y) * (dot.y - click.y)

Infinity == 0 - 1

\* the forEach of handleClick: if (dist < minDist && dist < 10)
RECURSIVE closest(_, _, _, _, _)
closest(dots, click, den, minDist2, best) ==
    IF dots = <<>> THEN best
    ELSE LET dist2 == Dist2(Head(dots), click)
         IN  IF (minDist2 = Infinity \/ dist2 < minDist2)
                /\ dist2 < HitRadius * HitRadius * den * den
             THEN closest(Tail(dots), click, den, dist2, Head(dots).building)
             ELSE closest(Tail(dots), click, den, minDist2, best)

\* the first dot within the radius is taken, whatever its distance
handleClickHitFirst(map, click) ==
    LET within == {i \in DOMAIN map.buildingDots :
                     Dist2(map.buildingDots[i], click)
                       < HitRadius * HitRadius * map.mapConfig.scaleDen
                           * map.mapConfig.scaleDen}
    IN  IF ~map.mapConfig.defined \/ within = {} THEN Null ELSE SetMin(within)

\* if (!canvasContent || !mapConfig) return; else the closest dot, or null
handleClickHit(map, click) ==
    IF map.mapConfig.defined
    THEN closest(map.buildingDots, click, map.mapConfig.scaleDen, Infinity, Null)
    ELSE Null

\* click points: a coarse grid over the surface, and points at and around
\* every dot (offsets in pixels)
ClickOffsets == {<<0, 0>>, <<6, 0>>, <<0 - 6, 0>>, <<6, 8>>, <<8, 8>>}

ClickPoints(map) ==
    {[x |-> gx * map.mapConfig.scaleDen, y |-> gy * map.mapConfig.scaleDen] :
        gx \in {0, 75, MapSize}, gy \in {0, 75, MapSize}}
    \cup {[x |-> map.buildingDots[i].x + o[1] * map.mapConfig.scaleDen,
           y |-> map.buildingDots[i].y + o[2] * map.mapConfig.scaleDen] :
             i \in DOMAIN map.buildingDots, o \in ClickOffsets}

InitMap ==
    /\ mapBuildings = <<>>
    /\ miniMap = MiniMapOverlay(<<>>)
    /\ mapClick = NoClick

(***************************************************************************)
(* useStore.js: actions, each followed by the render it triggers           *)
(***************************************************************************)
SetCityData(data) ==
    /\ cityData' = data
    /\ loading' = FALSE
    /\ error' = "null"
    /\ analysisProgress' = 100
    /\ Render(data, selectedBuilding, showRoads)
    /\ UNCHANGED <<selectedBuilding, hoveredBuilding, showRoads, over, clicked>>
    /\ UNCHANGED <<fnVars, viewVars, frameVars, meshVars, mapVars, asyncVars>>

\* click on a rendered building, a search result or a minimap dot
\* a click on the selected building deselects it
SelectBuildingToggle(b) ==
    /\ clicked' = b
    /\ selectedBuilding' = IF selectedBuilding = b THEN Null ELSE b
    /\ Render(cityData, selectedBuilding', showRoads)
    /\ UNCHANGED <<cityData, loading, error, analysisProgress, hoveredBuilding,
                   showRoads, over>>
    /\ UNCHANGED <<fnVars, viewVars, frameVars, meshVars, mapVars, asyncVars>>

SelectBuilding(b) ==
    /\ clicked' = b
    /\ selectedBuilding' = b
    /\ Render(cityData, b, showRoads)
    /\ UNCHANGED <<cityData, loading, error, analysisProgress, hoveredBuilding,
                   showRoads, over>>
    /\ UNCHANGED <<fnVars, viewVars, frameVars, meshVars, mapVars, asyncVars>>

ClearSelection ==
    /\ selectedBuilding' = Null
    /\ Render(cityData, Null, showRoads)
    /\ clicked' = Null
    /\ UNCHANGED <<cityData, loading, error, analysisProgress, hoveredBuilding,
                   showRoads, over>>
    /\ UNCHANGED <<fnVars, viewVars, frameVars, meshVars, mapVars, asyncVars>>

ToggleRoads ==
    /\ showRoads' = ~showRoads
    /\ Render(cityData, selectedBuilding, ~showRoads)
    /\ UNCHANGED <<cityData, loading, error, analysisProgress, selectedBuilding,
                   hoveredBuilding, over, clicked>>
    /\ UNCHANGED <<fnVars, viewVars, frameVars, meshVars, mapVars, asyncVars>>

\* handleOut: setHoveredBuilding(null)
handleOut(b) == Null

PointerOver(b) ==
    /\ b \notin over
    /\ over' = over \cup {b}
    /\ hoveredBuilding' = b
    /\ UNCHANGED <<cityData, loading, error, analysisProgress, selectedBuilding,
                   showRoads, clicked, connMemo, roadsMemo>>
    /\ UNCHANGED <<fnVars, viewVars, frameVars, meshVars, mapVars, asyncVars>>

PointerOut(b) ==
    /\ b \in over
    /\ over' = over \ {b}
    /\ hoveredBuilding' = handleOut(b)
    /\ UNCHANGED <<cityData, loading, error, analysisProgress, selectedBuilding,
                   showRoads, clicked, connMemo, roadsMemo>>
    /\ UNCHANGED <<fnVars, viewVars, frameVars, meshVars, mapVars, asyncVars>>

(***************************************************************************)
(* Roads component (Streetlights.jsx): roadData                            *)
(***************************************************************************)
\* buildingPositions[id] is defined exactly for the ids of the buildings prop
buildingPositions(buildings) == {buildings[i] : i \in DOMAIN buildings}

roadData(roads, buildings, show) ==
    IF ~roads.defined \/ Len(roads.list) = 0 \/ ~show THEN <<>>
    ELSE SelectSeq(roads.list,
                   LAMBDA road : /\ road.source \in buildingPositions(buildings)
                                 /\ road.target \in buildingPositions(buildings))

(***************************************************************************)
(* Inputs of the classifiers                                               *)
(***************************************************************************)
\* every metrics object that carries a subset D of the fields of the records R
Partial(R, F) == {[f \in D |-> m[f]] : m \in R, D \in SUBSET F}

Buildings(M, decays) ==
    {[hasMetrics |-> TRUE, metrics |-> m, is_hotspot |-> h, decay_level |-> d] :
        m \in M, h \in BOOLEAN, d \in decays}
    \cup {[hasMetrics |-> FALSE, metrics |-> EmptyMetrics, is_hotspot |-> h,
           decay_level |-> d] : h \in BOOLEAN, d \in decays}

TierBuildings ==
    Buildings(Partial([loc : Near({0, 80, 200, 500}),
                       complexity : Near({0, 6, 12, 20})],
                      {"loc", "complexity"}), {0})

PatternBuildings ==
    Buildings(Partial([loc : Near({0, 50, 400, 800}) \cup {900},
                       complexity : Near({0, 3, 20, 25}) \cup {30},
                       methods : Near({3}) \cup {0},
                       dependencies_in : Near({10}) \cup {0}],
                      {"loc", "complexity", "methods", "dependencies_in"}), {0})

HealthBuildings ==
    Buildings(Partial([complexity : Near({10, 15, 25}) \cup {0, 30},
                       churn : Near({8, 15}) \cup {0, 20},
                       dependencies_in : Near({10, 20}) \cup {0, 25}],
                      {"complexity", "churn", "dependencies_in"}),
              Near({50, 80}) \cup {0, 90, 100})

IdleBuilding ==
    [hasMetrics |-> FALSE, metrics |-> EmptyMetrics, is_hotspot |-> FALSE,
     decay_level |-> 0]

(***************************************************************************)
(* useStore.js: the asynchronous actions.  A call runs up to its await in  *)
(* one step; what follows the await runs in a later step, when the fetch   *)
(* settles.  The answer of a fetch is an outcome: a JSON body of an OK     *)
(* response, a non-OK response with or without a detail, or a rejection.   *)
(***************************************************************************)
MaxRequests == 3   \* fetchDemo and analyzeRepo calls made in one behaviour
MaxSends == 3      \* sendMessage calls made in one behaviour

\* the part of the store the three setters write
Flags == [loading |-> loading, error |-> error, analysisProgress |-> analysisProgress]

setLoading(st, l) == [st EXCEPT !.loading = l]

setErrorDropsMessage(st, e) == [st EXCEPT !.error = "null", !.loading = FALSE]

\* set({ error, loading: false })
setError(st, e) == [st EXCEPT !.error = e, !.loading = FALSE]

setProgress(st, p) == [st EXCEPT !.analysisProgress = p]

SetFlags(st) ==
    /\ loading' = st.loading
    /\ error' = st.error
    /\ analysisProgress' = st.analysisProgress

\* setCityData(data) and the render it triggers
StoreCityData(data) ==
    /\ cityData' = data
    /\ loading' = FALSE
    /\ error' = "null"
    /\ analysisProgress' = 100
    /\ Render(data, selectedBuilding, showRoads)
    /\ UNCHANGED <<selectedBuilding, hoveredBuilding, showRoads, over, clicked>>

createDemoCityMissing == NullData

\* the built-in demo city: every road joins two of its buildings
createDemoCity ==
    [present |-> TRUE, buildings |-> [i \in 1..NumIds |-> i], hasRoads |-> TRUE,
     roads |-> <<[source |-> 1, target |-> NumIds, from |-> Null, to |-> Null]>>]

\* the snapshots the backend answers with
Responses ==
    {[present |-> TRUE, buildings |-> <<1>>, hasRoads |-> FALSE, roads |-> <<>>],
     [present |-> TRUE, buildings |-> [i \in 1..NumIds |-> i], hasRoads |-> TRUE,
      roads |-> <<[source |-> NumIds, target |-> 1, from |-> Null, to |-> Null]>>]}

Outcomes ==
    {[ok |-> TRUE, thrown |-> FALSE, detail |-> "", data |-> d] : d \in Responses}
    \cup {[ok |-> FALSE, thrown |-> FALSE, detail |-> t, data |-> NullData] :
            t \in {"", "Path does not exist"}}
    \cup {[ok |-> FALSE, thrown |-> TRUE, detail |-> "Failed to fetch", data |-> NullData]}

\* error.message in the catch block of analyzeRepo; the status is 500
errorMessage(o) ==
    IF o.thrown THEN o.detail
    ELSE IF o.detail # "" THEN o.detail ELSE "Analysis failed (500)"

Record(r, o) == (r.id :> o) @@ responses

\* App: the effect that runs once the application is mounted
CallFetchDemo ==
    /\ issued = 0
    /\ SetFlags(setLoading(Flags, TRUE))
    /\ issued' = issued + 1
    /\ requests' = requests \cup {[id |-> issued + 1, kind |-> "demo"]}
    /\ Render(cityData, selectedBuilding, showRoads)
    /\ UNCHANGED <<cityData, selectedBuilding, hoveredBuilding, showRoads, over, clicked>>
    /\ UNCHANGED <<responses, chatVars, fnVars, viewVars, frameVars, meshVars, mapVars>>

SettleFetchDemo(r, o) ==
    /\ r \in requests
    /\ r.kind = "demo"
    /\ StoreCityData(IF o.ok THEN o.data ELSE createDemoCity)
    /\ requests' = requests \ {r}
    /\ responses' = Record(r, o)
    /\ UNCHANGED <<issued, chatVars, fnVars, viewVars, frameVars, meshVars, mapVars>>

\* Header: the form behind the Analyze button, which is disabled while loading;
\* analyzeRepo up to its await
CallAnalyzeRepo ==
    /\ issued > 0
    /\ issued < MaxRequests
    /\ ~loading
    /\ SetFlags(setProgress(setError(setProgress(setLoading(Flags, TRUE), 0), "null"), 10))
    /\ issued' = issued + 1
    /\ requests' = requests \cup {[id |-> issued + 1, kind |-> "analyze"]}
    /\ Render(cityData, selectedBuilding, showRoads)
    /\ UNCHANGED <<cityData, selectedBuilding, hoveredBuilding, showRoads, over, clicked>>
    /\ UNCHANGED <<responses, chatVars, fnVars, viewVars, frameVars, meshVars, mapVars>>

\* analyzeRepo after its await: setProgress(80) follows every answer, the
\* catch block follows a rejection or a non-OK answer
SettleAnalyzeRepo(r, o) ==
    /\ r \in requests
    /\ r.kind = "analyze"
    /\ IF o.ok
       THEN StoreCityData(o.data)
       ELSE /\ SetFlags(setLoading(setError(IF o.thrown THEN Flags ELSE setProgress(Flags, 80),
                                           errorMessage(o)), FALSE))
            /\ Render(cityData, selectedBuilding, showRoads)
            /\ UNCHANGED <<cityData, selectedBuilding, hoveredBuilding, showRoads, over,
                           clicked>>
    /\ requests' = requests \ {r}
    /\ responses' = Record(r, o)
    /\ UNCHANGED <<issued, chatVars, fnVars, viewVars, frameVars, meshVars, mapVars>>

Fallback ==
    "Unable to connect to the AI assistant. Please ensure the backend server is running."

Contents == {"Where are the hotspots?", "Explain this file"}

ChatOutcomes == {[ok |-> TRUE, message |-> "Start with LegacyBilling.ts"],
                 [ok |-> FALSE, message |-> ""]}

replyBaseCaptured(c) == c.messages

\* set((state) => ...) reads the transcript of the moment the fetch settles
replyBase(c) == messages

SendMessage(content) ==
    /\ sent < MaxSends
    /\ messages' = Append(messages, [role |-> "user", content |-> content])
    /\ chatLoading' = TRUE
    /\ sent' = sent + 1
    /\ chats' = chats \cup {[id |-> sent + 1, content |-> content, messages |-> messages]}
    /\ UNCHANGED <<requestVars, fnVars, storeVars, viewVars, frameVars, meshVars, mapVars>>

\* Sidebar: submitting the chat form
handleSubmit(content) ==
    /\ ~chatLoading
    /\ SendMessage(content)

SettleSendMessage(c, o) ==
    /\ c \in chats
    /\ messages' = Append(replyBase(c),
                          [role |-> "assistant",
                           content |-> IF o.ok THEN o.message ELSE Fallback])
    /\ chatLoading' = FALSE
    /\ chats' = chats \ {c}
    /\ UNCHANGED <<sent, requestVars, fnVars, storeVars, viewVars, frameVars, meshVars, mapVars>>

InitAsync ==
    /\ requests = {}
    /\ issued = 0
    /\ responses = <<>>
    /\ messages = <<>>
    /\ chatLoading = FALSE
    /\ chats = {}
    /\ sent = 0

(***************************************************************************)
(* Initial states                                                          *)
(***************************************************************************)
MemoInit(data, selected, show) ==
    /\ connMemo = [deps |-> ConnDeps(selected, data),
                   val |-> connectedIds(selected, RoadsOf(data))]
    /\ roadsMemo = [deps |-> RoadsDeps(data, selected, show),
                    val |-> roadsToRender(RoadsOf(data), selected, show)]

\* the store as created, and the first render of CityScene
InitStore ==
    /\ cityData = NullData
    /\ loading = FALSE
    /\ error = "null"
    /\ analysisProgress = 0
    /\ selectedBuilding = Null
    /\ hoveredBuilding = Null
    /\ showRoads = TRUE
    /\ over = {}
    /\ clicked = Null
    /\ MemoInit(NullData, Null, TRUE)

\* the store once a snapshot with at least one building has been set
InitLoaded ==
    /\ cityData \in {d \in Snapshots : Len(d.buildings) > 0}
    /\ loading = FALSE
    /\ error = "null"
    /\ analysisProgress = 100
    /\ selectedBuilding = Null
    /\ hoveredBuilding = Null
    /\ showRoads = TRUE
    /\ over = {}
    /\ clicked = Null
    /\ MemoInit(cityData, Null, TRUE)

\* no positioned snapshot: the scene of the initial, null cityData
InitView ==
    /\ sceneData = NullSceneData
    /\ scene = CityScene(NullSceneData, Null, TRUE)
    /\ InitFrame
    /\ InitMesh
    /\ InitMap
    /\ InitAsync

InitFn(inputs) ==
    /\ bld \in inputs
    /\ tier = Unset
    /\ pattern = "unset"
    /\ healthScore = UnsetHealth

(***************************************************************************)
(* The renders that apply the classifiers to bld                           *)
(***************************************************************************)
RenderBuilding ==
    /\ tier = Unset
    /\ tier' = getBuildingTier(bld)
    /\ UNCHANGED <<bld, pattern, healthScore>>
    /\ UNCHANGED <<storeVars, viewVars, frameVars, meshVars, mapVars, asyncVars>>

RenderBuildingLabel ==
    /\ pattern = "unset"
    /\ pattern' = detectPattern(bld)
    /\ UNCHANGED <<bld, tier, healthScore>>
    /\ UNCHANGED <<storeVars, viewVars, frameVars, meshVars, mapVars, asyncVars>>

RenderBuildingPanel ==
    /\ healthScore = UnsetHealth
    /\ healthScore' = BuildingPanelHealth(bld)
    /\ UNCHANGED <<bld, tier, pattern>>
    /\ UNCHANGED <<storeVars, viewVars, frameVars, meshVars, mapVars, asyncVars>>

(***************************************************************************)
(* Specifications                                                          *)
(***************************************************************************)
\* the store under snapshot replacement, selection and the roads toggle
Init == InitFn({IdleBuilding}) /\ InitStore /\ InitView

Next ==
    \/ \E data \in Snapshots : SetCityData(data)
    \/ \E b \in buildingMap(cityData) : SelectBuilding(b)
    \/ ClearSelection
    \/ ToggleRoads

Spec == Init /\ [][Next]_vars

\* selection and the roads toggle on one snapshot whose road list is about
\* as long as the limit; the roads alternate between two kinds
LongRoadLists ==
    {[i \in 1..n |-> IF i % 2 = 1 THEN odd ELSE even] :
        n \in Near({RoadLimit}), odd \in SourceTargetRoads, even \in SourceTargetRoads}

InitRoads ==
    /\ InitFn({IdleBuilding})
    /\ cityData \in {[present |-> TRUE, buildings |-> [i \in 1..NumIds |-> i],
                       hasRoads |-> TRUE, roads |-> rs] : rs \in LongRoadLists}
    /\ loading = FALSE
    /\ error = "null"
    /\ analysisProgress = 100
    /\ selectedBuilding = Null
    /\ hoveredBuilding = Null
    /\ showRoads = TRUE
    /\ over = {}
    /\ clicked = Null
    /\ MemoInit(cityData, Null, TRUE)
    /\ InitView

NextRoads ==
    \/ \E b \in buildingMap(cityData) : SelectBuilding(b)
    \/ ClearSelection
    \/ ToggleRoads

SpecRoads == InitRoads /\ [][NextRoads]_vars

\* the snapshot requests of one session, with selection and the roads toggle
NextRequests ==
    \/ CallFetchDemo
    \/ CallAnalyzeRepo
    \/ \E r \in requests, o \in Outcomes : SettleFetchDemo(r, o)
    \/ \E r \in requests, o \in Outcomes : SettleAnalyzeRepo(r, o)
    \/ \E b \in buildingMap(cityData) : SelectBuilding(b)
    \/ ToggleRoads

SpecRequests == Init /\ [][NextRequests]_vars

\* the same, where every fetch of the demo is answered or rejected in the end
SpecRequestsFair ==
    /\ Init
    /\ [][NextRequests]_vars
    /\ WF_vars(CallFetchDemo)
    /\ WF_vars(\E r \in requests, o \in Outcomes : SettleFetchDemo(r, o))

\* the chat of one session
NextChat ==
    \/ \E content \in Contents : handleSubmit(content)
    \/ \E content \in Contents : SendMessage(content)
    \/ \E c \in chats, o \in ChatOutcomes : SettleSendMessage(c, o)

SpecChat == Init /\ [][NextChat]_vars

\* pointer and click events on the buildings of one loaded snapshot
InitHover == InitFn({IdleBuilding}) /\ InitLoaded /\ InitView

NextHover ==
    \/ \E b \in buildingMap(cityData) : PointerOver(b)
    \/ \E b \in buildingMap(cityData) : PointerOut(b)
    \/ \E b \in buildingMap(cityData) : SelectBuilding(b)
    \/ ClearSelection

SpecHover == InitHover /\ [][NextHover]_vars

\* clicks between pointer movement, clearing and the road toggle
NextClick ==
    \/ \E b \in buildingMap(cityData) : SelectBuilding(b)
    \/ \E b \in buildingMap(cityData) : PointerOver(b)
    \/ \E b \in buildingMap(cityData) : PointerOut(b)
    \/ ClearSelection
    \/ ToggleRoads

SpecClick == InitHover /\ [][NextClick]_vars

\* CityScene rendering each positioned snapshot
InitScene ==
    /\ InitFn({IdleBuilding})
    /\ InitStore
    /\ sceneData \in SceneSnapshots
    /\ scene = UnsetScene
    /\ InitFrame
    /\ InitMesh
    /\ InitMap
    /\ InitAsync

RenderCityScene ==
    /\ scene = UnsetScene
    /\ scene' = CityScene(sceneData, selectedBuilding, showRoads)
    /\ UNCHANGED sceneData
    /\ UNCHANGED <<fnVars, storeVars, frameVars, meshVars, mapVars, asyncVars>>

NextScene == RenderCityScene
SpecScene == InitScene /\ [][NextScene]_vars

\* frames under snapshot loads and camera movement
InitFrames == InitFn({IdleBuilding}) /\ InitStore /\ InitView

NextFrames ==
    \/ \E n \in EntityCounts : LoadBuildings(n)
    \/ \E d \in CameraDistances : MoveCamera(d)

SpecFrames == InitFrames /\ [][NextFrames]_vars

\* the two building renderers on the same buildings
InitRenderModes ==
    /\ InitFn({IdleBuilding})
    /\ InitStore
    /\ sceneData = NullSceneData
    /\ scene = CityScene(NullSceneData, Null, TRUE)
    /\ InitFrame
    /\ InitMeshes
    /\ InitMap
    /\ InitAsync

NextRenderModes ==
    \/ RenderSingleBuildings
    \/ MountInstancedBuildings
    \/ UpdateInstancedBuildings

SpecRenderModes == InitRenderModes /\ [][NextRenderModes]_vars

\* the minimap over the buildings of the loaded snapshot
MapSnapshot(buildings) ==
    [present |-> TRUE, buildings |-> [i \in DOMAIN buildings |-> i],
     hasRoads |-> FALSE, roads |-> <<>>]

InitMiniMapWith(lists) ==
    /\ InitFn({IdleBuilding})
    /\ mapBuildings \in lists
    /\ miniMap = UnsetMap
    /\ mapClick = NoClick
    /\ cityData = MapSnapshot(mapBuildings)
    /\ loading = FALSE
    /\ error = "null"
    /\ analysisProgress = 100
    /\ selectedBuilding = Null
    /\ hoveredBuilding = Null
    /\ showRoads = TRUE
    /\ over = {}
    /\ clicked = Null
    /\ MemoInit(cityData, Null, TRUE)
    /\ sceneData = NullSceneData
    /\ scene = CityScene(NullSceneData, Null, TRUE)
    /\ InitFrame
    /\ InitMesh
    /\ InitAsync

\* the two useMemo of MiniMapOverlay
RenderMiniMap ==
    /\ ~miniMap.rendered
    /\ miniMap' = MiniMapOverlay(mapBuildings)
    /\ UNCHANGED <<mapBuildings, mapClick>>
    /\ UNCHANGED <<fnVars, storeVars, viewVars, frameVars, meshVars, asyncVars>>

\* handleClick: selectBuilding(closest) if a dot is in the radius
MiniMapClick(click) ==
    /\ miniMap.rendered
    /\ mapClick' = [tick |-> ~mapClick.tick, x |-> click.x, y |-> click.y]
    /\ LET hit == handleClickHit(miniMap, click)
       IN  IF hit = Null
           THEN UNCHANGED <<selectedBuilding, clicked, connMemo, roadsMemo>>
           ELSE /\ selectedBuilding' = hit
                /\ clicked' = hit
                /\ Render(cityData, hit, showRoads)
    /\ UNCHANGED <<cityData, loading, error, analysisProgress, hoveredBuilding,
                   showRoads, over>>
    /\ UNCHANGED <<mapBuildings, miniMap>>
    /\ UNCHANGED <<fnVars, viewVars, frameVars, meshVars, asyncVars>>

\* the projection of every building list
InitMiniMap == InitMiniMapWith(MapLists)
NextMiniMap == RenderMiniMap
SpecMiniMap == InitMiniMap /\ [][NextMiniMap]_vars

\* clicks on the rendered minimap
InitMiniMapClick == InitMiniMapWith(LevelMapLists)

NextMiniMapClick ==
    \/ RenderMiniMap
    \/ \E click \in ClickPoints(miniMap) : MiniMapClick(click)
    \/ ClearSelection

SpecMiniMapClick == InitMiniMapClick /\ [][NextMiniMapClick]_vars

\* the classifiers, each applied to every input building
InitTier == InitFn(TierBuildings) /\ InitStore /\ InitView
NextTier == RenderBuilding
SpecTier == InitTier /\ [][NextTier]_vars

InitPattern == InitFn(PatternBuildings) /\ InitStore /\ InitView
NextPattern == RenderBuildingLabel
SpecPattern == InitPattern /\ [][NextPattern]_vars

InitHealth == InitFn(HealthBuildings) /\ InitStore /\ InitView
NextHealth == RenderBuildingPanel
SpecHealth == InitHealth /\ [][NextHealth]_vars

(***************************************************************************)
(* Properties of the classifiers                                           *)
(***************************************************************************)
\* the value of a metric of bld, zero when the metric or the metrics are absent
Metric(f) == IF bld.hasMetrics /\ f \in DOMAIN bld.metrics THEN bld.metrics[f] ELSE 0

\* C1: getBuildingTier returns a value in {1,2,3,4} for every building,
\* metrics present or absent, and 4 whenever is_hotspot is true.
TierInRangeAndHotspotIsFour ==
    tier # Unset => /\ tier \in {1, 2, 3, 4}
                    /\ bld.is_hotspot => tier = 4

\* a hotspot without metrics, which its size alone would put in tier 1
HotspotWithoutMetricsRendered ==
    tier = 4 /\ bld.is_hotspot /\ ~bld.hasMetrics

\* C2: getBuildingTier equals the reference function with strict thresholds
\* 500/20 (or hotspot) for tier 4, 200/12 for tier 3, 80/6 for tier 2.
TierReference ==
    CASE Metric("loc") > 500 \/ Metric("complexity") > 20 \/ bld.is_hotspot -> 4
      [] OTHER ->
         CASE Metric("loc") > 200 \/ Metric("complexity") > 12 -> 3
           [] OTHER ->
              CASE Metric("loc") > 80 \/ Metric("complexity") > 6 -> 2
                [] OTHER -> 1

TierEqualsReference ==
    tier # Unset =>
        /\ tier = TierReference
        /\ (~bld.is_hotspot /\ Metric("loc") = 500 /\ Metric("complexity") <= 12) => tier = 3
        /\ (~bld.is_hotspot /\ Metric("loc") <= 200 /\ Metric("complexity") = 20) => tier = 3
        /\ (~bld.is_hotspot /\ Metric("loc") = 200 /\ Metric("complexity") <= 6) => tier = 2
        /\ (~bld.is_hotspot /\ Metric("loc") <= 80 /\ Metric("complexity") = 12) => tier = 2
        /\ (~bld.is_hotspot /\ Metric("loc") = 80 /\ Metric("complexity") <= 6) => tier = 1
        /\ (~bld.is_hotspot /\ Metric("loc") <= 80 /\ Metric("complexity") = 6) => tier = 1

\* a building exactly on the tier-4 loc threshold, rendered in tier 3
LocOnThresholdRendered ==
    tier = 3 /\ ~bld.is_hotspot /\ Metric("loc") = 500 /\ Metric("complexity") = 0

\* The rules of the pattern classifier in their priority order.  The method
\* count of rules 2 and 3 is metrics.methods when the building carries a
\* non-zero one and the complexity otherwise.
MethodCount == IF Metric("methods") # 0 THEN Metric("methods") ELSE Metric("complexity")

RuleNames == <<"god_class", "data_class", "lazy_class", "brain_class", "blob">>

RuleMatches(i) ==
    CASE i = 1 -> (Metric("loc") > 400 /\ Metric("complexity") > 20) \/ bld.is_hotspot
      [] i = 2 -> Metric("dependencies_in") > 10 /\ MethodCount < 3
      [] i = 3 -> Metric("loc") < 50 /\ MethodCount < 3 /\ ~bld.is_hotspot
      [] i = 4 -> Metric("complexity") > 25
      [] i = 5 -> Metric("loc") > 800

Matching == {i \in 1..5 : RuleMatches(i)}

\* C3: detectPattern returns at most one pattern, the one of the first rule
\* that matches in the order god_class, data_class, lazy_class, brain_class,
\* blob, and null when no rule matches; loc=900, complexity=30 is god_class.
PatternIsFirstMatchingRule ==
    pattern # "unset" =>
        /\ pattern \in {RuleNames[i] : i \in 1..5} \cup {"null"}
        /\ \A i \in 1..5 :
               pattern = RuleNames[i] <=> (i \in Matching /\ \A j \in Matching : i <= j)
        /\ pattern = "null" <=> Matching = {}
        /\ (Metric("loc") = 900 /\ Metric("complexity") = 30) => pattern = "god_class"

\* loc=900, complexity=30 matches god_class, brain_class and blob
SeveralRulesMatchClassified ==
    /\ pattern = "god_class"
    /\ Metric("loc") = 900 /\ Metric("complexity") = 30
    /\ {1, 4, 5} \subseteq Matching

\* C4: the health score of every building with metrics is an integer in
\* [0,100]; complexity=30, churn=20, decay_level=0.9, dependencies_in=25,
\* is_hotspot=true scores exactly 0.
WorstCase ==
    /\ Metric("complexity") = 30 /\ Metric("churn") = 20
    /\ Metric("dependencies_in") = 25
    /\ bld.decay_level = 90 /\ bld.is_hotspot

HealthScoreInRange ==
    (healthScore # UnsetHealth /\ bld.hasMetrics) =>
        /\ healthScore.status = "ok"
        /\ healthScore.value \in 0..100
        /\ WorstCase => healthScore.value = 0

WorstCaseScored ==
    healthScore.status = "ok" /\ WorstCase /\ healthScore.value = 0

\* the deduction of each rule, decided from the raw metrics
ComplexityDeduction ==
    CASE Metric("complexity") > 25 -> 30
      [] Metric("complexity") <= 25 /\ Metric("complexity") > 15 -> 20
      [] Metric("complexity") <= 15 /\ Metric("complexity") > 10 -> 10
      [] OTHER -> 0

ChurnDeduction ==
    CASE Metric("churn") > 15 -> 20
      [] Metric("churn") <= 15 /\ Metric("churn") > 8 -> 10
      [] OTHER -> 0

DecayDeduction ==
    CASE bld.decay_level > 80 -> 15
      [] bld.decay_level <= 80 /\ bld.decay_level > 50 -> 8
      [] OTHER -> 0

DependencyDeduction ==
    CASE Metric("dependencies_in") > 20 -> 15
      [] Metric("dependencies_in") <= 20 /\ Metric("dependencies_in") > 10 -> 8
      [] OTHER -> 0

HotspotDeduction == IF bld.is_hotspot THEN 20 ELSE 0

\* C5: the health score is 100 minus the sum of the five deductions, each
\* decided from the raw metrics with at most one deduction per rule, floored
\* at 0; a sum does not depend on the order of its terms.
HealthScoreIsSumOfDeductions ==
    (healthScore # UnsetHealth /\ bld.hasMetrics) =>
        /\ healthScore.status = "ok"
        /\ healthScore.value =
               Max(0, 100 - (HotspotDeduction + DependencyDeduction + DecayDeduction
                             + ChurnDeduction + ComplexityDeduction))

\* every rule deducts, the first three by their middle or lower tier
AllRulesDeductScored ==
    /\ healthScore.status = "ok"
    /\ ComplexityDeduction = 20 /\ ChurnDeduction = 10 /\ DecayDeduction = 8
    /\ DependencyDeduction = 8 /\ HotspotDeduction = 20
    /\ healthScore.value = 34

(***************************************************************************)
(* Properties of the selection, the connected set and the roads            *)
(***************************************************************************)
\* the ids of the buildings of the current snapshot
KnownIds == {cityData.buildings[i] : i \in DOMAIN cityData.buildings}

\* the road list of the current snapshot, empty when there is none
CurrentRoads == IF cityData.present /\ cityData.hasRoads THEN cityData.roads ELSE <<>>

\* the other endpoints of the roads of which id is the source or the target
OtherEndpoints(id, roads) ==
    {RoadTarget(roads[i]) : i \in {j \in DOMAIN roads : RoadSource(roads[j]) = id}}
    \cup {RoadSource(roads[i]) : i \in {j \in DOMAIN roads : RoadTarget(roads[j]) = id}}

\* C6: in every reachable state the connected set used for highlighting is
\* the set of other endpoints of the current roads at the current selection,
\* and it is empty when nothing is selected or no road matches.
ConnectedSetIsCurrent ==
    /\ selectedBuilding = Null => connMemo.val = {}
    /\ selectedBuilding # Null =>
           connMemo.val = OtherEndpoints(selectedBuilding, CurrentRoads)
    /\ \A b \in KnownIds :
           isConnected(b) <=> /\ selectedBuilding # Null
                              /\ b \in OtherEndpoints(selectedBuilding, CurrentRoads)

\* building 2 is selected and is the target of a road from building 1
TargetOfRoadSelected ==
    /\ selectedBuilding = 2
    /\ \E i \in DOMAIN CurrentRoads :
           RoadSource(CurrentRoads[i]) = 1 /\ RoadTarget(CurrentRoads[i]) = 2
    /\ connMemo.val = {1}
    /\ isConnected(1)

\* C7: the connected set never contains an id that is not the id of a
\* building of the current snapshot.
ConnectedSetOnlyKnownBuildings == connMemo.val \subseteq KnownIds

Resolves(road) == RoadSource(road) \in KnownIds /\ RoadTarget(road) \in KnownIds

CountIn(seq, x) == Cardinality({i \in DOMAIN seq : seq[i] = x})

RoadsComponentData == roadData(RoadsOf(cityData), centeredBuildings(cityData), showRoads)

\* C8: a road of the list to render whose source or target does not resolve
\* to a known building gets no geometry, and every road of the list that
\* resolves is still rendered, in CityScene and in the Roads component.
UnresolvedRoadsSkipped ==
    /\ \A i \in DOMAIN renderedRoads : Resolves(renderedRoads[i])
    /\ \A i \in DOMAIN roadsMemo.val :
           Resolves(roadsMemo.val[i]) =>
               CountIn(renderedRoads, roadsMemo.val[i]) = CountIn(roadsMemo.val, roadsMemo.val[i])
    /\ \A i \in DOMAIN RoadsComponentData :
           /\ RoadsComponentData[i].source \in KnownIds
           /\ RoadsComponentData[i].target \in KnownIds
    /\ showRoads =>
           \A i \in DOMAIN CurrentRoads :
               (CurrentRoads[i].source \in KnownIds /\ CurrentRoads[i].target \in KnownIds) =>
                   CountIn(RoadsComponentData, CurrentRoads[i]) = CountIn(CurrentRoads, CurrentRoads[i])

\* two roads to render, one of them dangling: only the other one is drawn
DanglingRoadSkipped ==
    /\ Len(roadsMemo.val) = 2
    /\ \E i \in 1..2 : ~Resolves(roadsMemo.val[i])
    /\ Len(renderedRoads) = 1
    /\ Len(RoadsComponentData) = 1

\* C9: a selection whose id is not a building of the current snapshot behaves
\* as no selection: no building panel, empty connected set, roads as with
\* nothing selected.
StaleSelectionIsNoSelection ==
    (selectedBuilding # Null /\ selectedBuilding \notin KnownIds) =>
        /\ ~panelShown
        /\ connMemo.val = {}
        /\ roadsMemo.val = roadsToRender(RoadsOf(cityData), Null, showRoads)

\* C10: pointer-out from a building clears hovered only if hovered still
\* refers to that building (after over A, over B, out A, hovered is B).
PointerOutKeepsOtherHover ==
    [][(over' \subseteq over /\ over' # over /\ hoveredBuilding \notin (over \ over'))
           => hoveredBuilding' = hoveredBuilding]_vars

\* C11: a click on a building sets selected to that building, replacing any
\* prior selection (selected is the last clicked building), and leaves
\* hovered, cityData and the display toggles unchanged.
ClickSetsSelectionOnly ==
    /\ [](selectedBuilding = clicked)
    /\ [][(clicked' # clicked /\ clicked' # Null) =>
              /\ hoveredBuilding' = hoveredBuilding
              /\ cityData' = cityData
              /\ showRoads' = showRoads]_vars

ClickedWhileHoveringAnother ==
    /\ clicked # Null
    /\ selectedBuilding = clicked
    /\ hoveredBuilding \notin {Null, clicked}
    /\ ~showRoads
    /\ connMemo.deps[1] = clicked

\* the rendered, centered x and z coordinates (doubled) of the scene
SceneXs == {scene.position[i].x : i \in DOMAIN scene.position}
SceneZs == {scene.position[i].z : i \in DOMAIN scene.position}

RECURSIVE SumX(_)
SumX(ps) == IF ps = <<>> THEN 0 ELSE Head(ps).x + SumX(Tail(ps))

RECURSIVE SumZ(_)
SumZ(ps) == IF ps = <<>> THEN 0 ELSE Head(ps).z + SumZ(Tail(ps))

SceneRendered == scene # UnsetScene

NonEmptyRendered == SceneRendered /\ ~NoBuildings(sceneData)

\* C12 as stated: after normalization of a non-empty building list the mean
\* of the x-coordinates and the mean of the z-coordinates are both 0.
CentroidAtOrigin ==
    NonEmptyRendered => SumX(scene.position) = 0 /\ SumZ(scene.position) = 0

\* C12 amended: after normalization of a non-empty building list the
\* midpoint of the bounding box is the origin: min x + max x = 0 and
\* min z + max z = 0.
BoundingBoxCenteredAtOrigin ==
    NonEmptyRendered =>
        /\ SetMin(SceneXs) + SetMax(SceneXs) = 0
        /\ SetMin(SceneZs) + SetMax(SceneZs) = 0

SkewedListNormalized ==
    /\ NonEmptyRendered
    /\ SumX(scene.position) # 0
    /\ SetMin(SceneXs) < 0
    /\ SetMax(SceneZs) > 0

\* C13: normalization shifts every building and every present district
\* center by one and the same (x, z) offset, so coordinate differences and
\* axis order are as before, and the set of building ids is unchanged.
NormalizationIsOneTranslation ==
    NonEmptyRendered =>
        /\ scene.buildings = sceneData.buildings
        /\ DOMAIN scene.position = DOMAIN sceneData.position
        /\ \E dx, dz \in (0 - 2 * SetMax(Coords))..0 :
              /\ \A i \in DOMAIN scene.position :
                    /\ scene.position[i].x = 2 * sceneData.position[i].x + dx
                    /\ scene.position[i].z = 2 * sceneData.position[i].z + dz
              /\ sceneData.hasDistricts =>
                    /\ DOMAIN scene.districts = DOMAIN sceneData.districts
                    /\ \A k \in DOMAIN sceneData.districts :
                          sceneData.districts[k].hasCenter =>
                            /\ scene.districts[k].center.x
                                 = 2 * sceneData.districts[k].center.x + dx
                            /\ scene.districts[k].center.y
                                 = 2 * sceneData.districts[k].center.y + dz
        /\ \A i, j \in DOMAIN scene.position :
              /\ scene.position[i].x - scene.position[j].x
                   = 2 * (sceneData.position[i].x - sceneData.position[j].x)
              /\ scene.position[i].z - scene.position[j].z
                   = 2 * (sceneData.position[i].z - sceneData.position[j].z)
              /\ (scene.position[i].x < scene.position[j].x)
                   <=> (sceneData.position[i].x < sceneData.position[j].x)
              /\ (scene.position[i].z < scene.position[j].z)
                   <=> (sceneData.position[i].z < sceneData.position[j].z)

DistrictShiftedWithBuildings ==
    /\ NonEmptyRendered
    /\ Len(scene.position) > 1
    /\ centerX2(sceneData) # centerZ2(sceneData)
    /\ Len(scene.districts) > 0
    /\ sceneData.districts[1].hasCenter
    /\ scene.districts[1].center.y # 0

\* C14: a null snapshot, or one whose buildings list is missing or empty,
\* renders the empty scene without error: lights and ground plane only, no
\* buildings, districts or roads, even if the snapshot carries some.
EmptySnapshotIsEmptyScene ==
    (SceneRendered /\ NoBuildings(sceneData)) =>
        /\ scene.status = "ok"
        /\ scene.empty /\ scene.lights /\ scene.ground
        /\ scene.buildings = <<>>
        /\ scene.districts = <<>>
        /\ scene.roads = <<>>

MissingBuildingsWithDistrictsRendered ==
    /\ SceneRendered
    /\ sceneData.present /\ ~sceneData.hasBuildings
    /\ Len(sceneData.districts) > 0
    /\ Len(sceneData.roads) > 0

\* the metrics of a building with every negative or missing field set to 0
HealthFields == {"complexity", "churn", "dependencies_in"}

ZeroedMetrics(building) ==
    [f \in HealthFields |->
        IF f \in DOMAIN MetricsOf(building) THEN Max(0, MetricsOf(building)[f]) ELSE 0]

\* C15: for a building whose metrics are negative, partly missing or absent
\* the health scorer (as the pattern classifier) returns a result, never
\* raises, and the result is that of the same building with those metrics
\* set to zero.
MalformedMetricsScoredAsZero ==
    healthScore # UnsetHealth =>
        /\ healthScore.status = "ok"
        /\ healthScore.value =
              calculateHealthScore(ZeroedMetrics(bld), bld.decay_level, bld.is_hotspot)

\* C16: above 200 buildings every building is drawn through the single
\* instanced path and none through the discrete meshes; at 200 or fewer the
\* discrete per-building path is used.
InstancedAboveThreshold ==
    /\ entityCount > 200 => frame.instanced = entityCount /\ frame.discrete = 0
    /\ entityCount <= 200 => frame.discrete = entityCount /\ frame.instanced = 0

\* the level of detail a frame was drawn at, read from its effects
LodOf(f) ==
    IF f.castShadow /\ f.shadowMapSize = ShadowMapSize /\ f.districts /\ f.roads
    THEN "high"
    ELSE IF f.castShadow /\ f.districts /\ ~f.roads THEN "medium"
    ELSE IF ~f.castShadow /\ ~f.districts /\ ~f.roads THEN "low"
    ELSE "other"

LodReference(n, d) ==
    IF n <= 100 THEN "high"
    ELSE IF d > 250 THEN "low"
    ELSE IF d > 150 THEN "medium"
    ELSE "high"

\* C18: the LOD state starts as high and after every frame depends on the
\* entity count n and the camera distance d only: high if n <= 100, else
\* low if d > 250, medium if 150 < d <= 250, high if d <= 150.
LodFollowsCountAndDistance ==
    entityCount > 0 => LodOf(frame) = LodReference(entityCount, cameraDistance)

\* C17: for the same buildings the instanced path and the discrete path
\* draw the same number of buildings, each at the same position, with the
\* same footprint (width, depth, height) and the same color, for every
\* language and every decay_level in [0,1].
RenderModesAgree ==
    (discrete # UnsetMeshes /\ instanced # UnsetMeshes) =>
        /\ Len(instanced) = Len(discrete)
        /\ \A i \in DOMAIN discrete :
              /\ instanced[i].position = discrete[i].position
              /\ instanced[i].box = discrete[i].box
              /\ instanced[i].color = discrete[i].color

\* the dots within the hit radius of the latest click
InRadius ==
    {i \in DOMAIN miniMap'.buildingDots :
        Dist2(miniMap'.buildingDots[i], mapClick')
          < HitRadius * HitRadius * miniMap'.mapConfig.scaleDen
              * miniMap'.mapConfig.scaleDen}

\* C19: a minimap click selects the building whose dot is nearest to the
\* click among the dots within the hit radius (10 pixels); a click exactly
\* on a dot selects a building projected at that point; a click with no dot
\* within the radius leaves the selection as it was.
MiniMapClickSelectsNearest ==
    [][mapClick'.tick # mapClick.tick =>
          IF InRadius = {}
          THEN selectedBuilding' = selectedBuilding
          ELSE /\ selectedBuilding' \in InRadius
               /\ \A j \in InRadius :
                     Dist2(miniMap'.buildingDots[selectedBuilding'], mapClick')
                       <= Dist2(miniMap'.buildingDots[j], mapClick')]_vars

ClickNearerToSecondDot ==
    /\ mapClick # NoClick
    /\ Len(miniMap.buildingDots) = 2
    /\ selectedBuilding = 2
    /\ Dist2(miniMap.buildingDots[2], mapClick) > 0
    /\ Dist2(miniMap.buildingDots[1], mapClick)
         < HitRadius * HitRadius * miniMap.mapConfig.scaleDen
             * miniMap.mapConfig.scaleDen

\* C20: for a non-empty building list the minimap has one finite positive
\* scale for both axes, every dot lies inside the 150 x 150 surface and
\* every dot size lies in [2,6]; for an empty list there is no map.
MiniMapProjectionBounded ==
    miniMap.rendered =>
        IF Len(mapBuildings) = 0
        THEN ~miniMap.mapConfig.defined /\ miniMap.buildingDots = <<>>
        ELSE /\ miniMap.mapConfig.defined
             /\ miniMap.mapConfig.scaleDen > 0
             /\ Len(miniMap.buildingDots) = Len(mapBuildings)
             /\ \A i \in DOMAIN miniMap.buildingDots :
                   LET dot == miniMap.buildingDots[i]
                   IN  /\ dot.x >= 0 /\ dot.x <= MapSize * miniMap.mapConfig.scaleDen
                       /\ dot.y >= 0 /\ dot.y <= MapSize * miniMap.mapConfig.scaleDen
                       /\ dot.size5 >= 10 /\ dot.size5 <= 30

SharedPositionProjected ==
    /\ miniMap.rendered
    /\ Len(mapBuildings) = 2
    /\ mapBuildings[1].x = mapBuildings[2].x
    /\ mapBuildings[1].z = mapBuildings[2].z
    /\ miniMap.buildingDots[1].size5 = 10
    /\ miniMap.buildingDots[2].size5 = 30
    /\ mapBuildings[1].height < 10
    /\ mapBuildings[2].height > 30

\* C21 as stated: when the god_class rule does not match, the pattern is
\* data_class exactly when dependencies_in > 10 and complexity < 3, and
\* otherwise lazy_class exactly when loc < 50, complexity < 3 and not hotspot;
\* no metric field other than complexity stands for the method count.
DataAndLazyDecidedByComplexity ==
    (pattern # "unset" /\ ~RuleMatches(1)) =>
        /\ pattern = "data_class"
             <=> (Metric("dependencies_in") > 10 /\ Metric("complexity") < 3)
        /\ pattern = "lazy_class"
             <=> /\ ~(Metric("dependencies_in") > 10 /\ Metric("complexity") < 3)
                 /\ Metric("loc") < 50 /\ Metric("complexity") < 3 /\ ~bld.is_hotspot

\* C21 amended: the method count is metrics.methods when that field is
\* present and not 0, and complexity otherwise; with that count m, the
\* pattern is data_class exactly when dependencies_in > 10 and m < 3, and
\* otherwise lazy_class exactly when loc < 50, m < 3 and not hotspot.
DataAndLazyDecidedByMethodCount ==
    (pattern # "unset" /\ ~RuleMatches(1)) =>
        /\ pattern = "data_class"
             <=> (Metric("dependencies_in") > 10 /\ MethodCount < 3)
        /\ pattern = "lazy_class"
             <=> /\ ~(Metric("dependencies_in") > 10 /\ MethodCount < 3)
                 /\ Metric("loc") < 50 /\ MethodCount < 3 /\ ~bld.is_hotspot

MethodsFieldOverridesComplexity ==
    /\ pattern \notin {"unset", "data_class", "lazy_class", "god_class"}
    /\ Metric("methods") >= 3
    /\ Metric("complexity") < 3
    /\ Metric("dependencies_in") > 10
    /\ Metric("loc") < 50

\* C29: a building with is_hotspot true is classified god_class whatever
\* its metrics: never data_class, lazy_class, brain_class, blob or no pattern.
HotspotIsGodClass ==
    (pattern # "unset" /\ bld.is_hotspot) => pattern = "god_class"

\* a small hotspot that the data_class rule would match
SmallHotspotClassified ==
    /\ pattern = "god_class"
    /\ bld.is_hotspot
    /\ Metric("dependencies_in") > 10 /\ MethodCount < 3
    /\ Metric("loc") < 50

\* the output of the normalizer handed to it again as a snapshot
NormalizedAsData ==
    [present |-> TRUE, hasBuildings |-> TRUE,
     buildings |-> scene.buildings, position |-> scene.position,
     hasDistricts |-> TRUE,
     districts |-> [k \in DOMAIN scene.districts |->
                      [id |-> scene.districts[k].id, hasCenter |-> TRUE,
                       center |-> scene.districts[k].center]],
     hasRoads |-> FALSE, roads |-> <<>>]

\* C22: normalizing the output of the normalizer again changes nothing:
\* building positions and district centers are those of the first pass.
\* (The second pass doubles its input like the first, hence the factor 2.)
NormalizerIsIdempotent ==
    SceneRendered =>
        /\ centeredBuildings(NormalizedAsData) = scene.buildings
        /\ DOMAIN centeredPosition(NormalizedAsData) = DOMAIN scene.position
        /\ \A i \in DOMAIN scene.position :
              /\ centeredPosition(NormalizedAsData)[i].x = 2 * scene.position[i].x
              /\ centeredPosition(NormalizedAsData)[i].z = 2 * scene.position[i].z
        /\ DOMAIN centeredDistricts(NormalizedAsData) = DOMAIN scene.districts
        /\ \A k \in DOMAIN scene.districts :
              /\ centeredDistricts(NormalizedAsData)[k].center.x
                   = 2 * scene.districts[k].center.x
              /\ centeredDistricts(NormalizedAsData)[k].center.y
                   = 2 * scene.districts[k].center.y

ShiftedListNormalizedTwice ==
    /\ NonEmptyRendered
    /\ centerX2(sceneData) # 0
    /\ centerZ2(sceneData) # 0
    /\ Len(scene.position) > 1
    /\ Len(scene.districts) > 0
    /\ scene.districts[1].center.x # 0
    /\ centeredPosition(NormalizedAsData)[1].x = 2 * scene.position[1].x

\* the indices of the current roads that have id as source or target
IncidentIndices(id) ==
    {i \in DOMAIN CurrentRoads :
        RoadSource(CurrentRoads[i]) = id \/ RoadTarget(CurrentRoads[i]) = id}

\* C28: with a building selected the roads to render are exactly the roads
\* incident to it, whatever showRoads says; with nothing selected they are
\* the first 40 roads of the list at most when showRoads is on, and none when
\* it is off.
RoadsFollowSelectionAndToggle ==
    /\ selectedBuilding # Null =>
          /\ Len(roadsMemo.val) = Cardinality(IncidentIndices(selectedBuilding))
          /\ \A r \in SourceTargetRoads \cup FromToRoads :
                CountIn(roadsMemo.val, r)
                  = Cardinality({i \in IncidentIndices(selectedBuilding) :
                                   CurrentRoads[i] = r})
    /\ (selectedBuilding = Null /\ showRoads) =>
          /\ Len(roadsMemo.val) = Min(RoadLimit, Len(CurrentRoads))
          /\ \A i \in DOMAIN roadsMemo.val : roadsMemo.val[i] = CurrentRoads[i]
    /\ (selectedBuilding = Null /\ ~showRoads) => roadsMemo.val = <<>>

\* every road of a list longer than the limit is incident to the selected
\* building, and the toggle is off
AllOfLongListIncident ==
    /\ selectedBuilding # Null /\ ~showRoads
    /\ Len(CurrentRoads) > RoadLimit
    /\ Len(roadsMemo.val) = Len(CurrentRoads)

\* C30: at most one building shows the selected ring, and no building shows
\* both the selected and the connected ring, even when a road connects the
\* selected building to itself.
RingsAreExclusive ==
    /\ Cardinality({b \in KnownIds : selectedRing(b)}) <= 1
    /\ \A b \in KnownIds : ~(selectedRing(b) /\ connectedRing(b))

SelfRoadOfSelectedBuilding ==
    /\ selectedBuilding \in KnownIds
    /\ \E i \in DOMAIN CurrentRoads :
          /\ RoadSource(CurrentRoads[i]) = selectedBuilding
          /\ RoadTarget(CurrentRoads[i]) = selectedBuilding
    /\ isConnected(selectedBuilding)
    /\ selectedRing(selectedBuilding)
    /\ ~connectedRing(selectedBuilding)

(***************************************************************************)
(* The asynchronous store actions                                          *)
(***************************************************************************)
Analyzing == {r \in requests : r.kind = "analyze"}

\* C23: while an analyzeRepo request has not settled, loading is true
LoadingWhileAnalyzing == Analyzing # {} => loading

AllSettledSuccessfully ==
    /\ issued > 0
    /\ requests = {}
    /\ \A i \in DOMAIN responses : responses[i].ok

\* C24: once every snapshot request has settled successfully, the snapshot
\* shown is the response of the request that was issued last
LastIssuedWins == AllSettledSuccessfully => cityData = responses[issued].data

\* the step in which request r is issued, and the one in which it is answered by o
Issues(r) == r \notin requests /\ r \in requests'
Answers(r, o) == r \in requests /\ r \notin requests' /\ responses'[r.id] = o

AnalyzeRequests == {[id |-> i, kind |-> "analyze"] : i \in 1..MaxRequests}

\* C25: a failed analyzeRepo request leaves the failure message in error and
\* loading false, and neither the call nor the failure touches cityData, the
\* selection or the roads toggle; a successful one stores the response with
\* error null, loading false and analysisProgress 100
AnalyzeRepoOutcome ==
    [][\A r \in AnalyzeRequests :
        /\ Issues(r) => UNCHANGED <<cityData, selectedBuilding, showRoads>>
        /\ \A o \in Outcomes :
             Answers(r, o) =>
               IF o.ok
               THEN /\ cityData' = o.data
                    /\ error' = "null"
                    /\ loading' = FALSE
                    /\ analysisProgress' = 100
               ELSE /\ error' = errorMessage(o)
                    /\ loading' = FALSE
                    /\ UNCHANGED <<cityData, selectedBuilding, showRoads>>]_vars

\* an analysis has failed while a building was selected and the roads hidden
AnalysisFailedWithSelection ==
    /\ \E i \in DOMAIN responses :
         /\ i > 1
         /\ ~responses[i].ok
         /\ error = errorMessage(responses[i])
    /\ ~loading
    /\ cityData.present
    /\ selectedBuilding # Null
    /\ ~showRoads

DemoRequests == {[id |-> i, kind |-> "demo"] : i \in 1..MaxRequests}

DemoInFlight == \E r \in DemoRequests : r \in requests

DemoLoaded ==
    /\ ~DemoInFlight
    /\ \E r \in DemoRequests : r.id \in DOMAIN responses
    /\ cityData.present
    /\ loading = FALSE
    /\ error = "null"

IsPrefix(s, t) == Len(s) <= Len(t) /\ \A i \in 1..Len(s) : s[i] = t[i]

AssistantContents == {o.message : o \in {c \in ChatOutcomes : c.ok}} \cup {Fallback}

\* C27: a send appends the user's message at once, a settled request appends
\* exactly one assistant message (the reply or the fallback text), no step
\* drops or reorders what the transcript holds, and chatLoading is false
\* once no request is in flight
TranscriptIsAppendOnly ==
    /\ [][/\ IsPrefix(messages, messages')
          /\ \A c \in chats' \ chats :
               messages' = Append(messages, [role |-> "user", content |-> c.content])
          /\ \A c \in chats \ chats' :
               \E text \in AssistantContents :
                 messages' = Append(messages, [role |-> "assistant", content |-> text])
          /\ chats' = {} => chatLoading' = FALSE]_vars
    /\ [](chats = {} => chatLoading = FALSE)

\* two sends were in flight together and the first was answered last
RepliesOutOfOrder ==
    /\ chats = {}
    /\ Len(messages) = 4
    /\ messages[1].role = "user"
    /\ messages[2].role = "user"
    /\ messages[1].content # messages[2].content
    /\ messages[3].content = Fallback
    /\ messages[4].role = "assistant"
    /\ messages[4].content # Fallback

====
